---- MODULE Spec2Model ----
(***************************************************************************)
(* Model of the temperature analysis core (src/functions.py) and of the    *)
(* dashboard handlers that call it (src/app.py).                           *)
(*                                                                         *)
(* Numbers.  A temperature is an integer number of half-hundredths of a    *)
(* degree (10.00 C is 2000, 0.005 C is 1), so that rounding to two         *)
(* decimals is a real operation.  Statistics are exact rationals:          *)
(*   moving_avg = <<S, W>>            the window sum S over W,             *)
(*   moving_std = <<V, W * (W - 1)>>  the sample variance, V = W*Q - S*S,  *)
(*                                    whose square root the code stores,   *)
(* and NaN (an absent value) is the empty tuple.  Comparisons against      *)
(* avg +- k*std are decided exactly on the squares.  IEEE rounding of the  *)
(* floating point arithmetic is not modelled.                              *)
(***************************************************************************)
EXTENDS Integers, Sequences, FiniteSets, TLC

VARIABLES
    \* rolling statistics engine, anomaly detector, seasonal aggregator
    data,                 \* the caller's table: a sequence of Observation rows
    window_size,          \* W
    data_sequential,      \* result of calculate_moving_average_sequential
    data_parallel,        \* result of calculate_moving_average_parallel
    data_analyzed,        \* the table handed to detect_anomalies
    threshold,            \* k, in tenths
    data_with_anomalies,  \* result of detect_anomalies
    seasonal_stats,       \* result of calculate_seasonal_stats
    \* live temperature client
    phase,                \* "idle", "running", "returned" or "raised"
    call,                 \* "none", "sync" or "batch": the function invoked
    cities,               \* the cities asked for: <<city>> or the batch's list
    session,              \* aiohttp.ClientSession: "none", "open", "closed"
    task_pc,              \* per entry: "created", "waiting" or "done"
    requests,             \* per entry: outbound requests issued so far
    response,             \* per entry: <<>> or <<what the upstream answered>>
    task_result,          \* per entry: <<>> or <<what the fetch returned>>
    completion,           \* the entries in the order their fetches ended
    results,              \* what the invocation returned
    \* dashboard (st.session_state and the widgets of the live tab)
    selected_city,        \* the selectbox: "" before a table is loaded
    current_temp,         \* <<>> or <<the success record last stored>>
    is_anomalous,         \* <<>> or <<the verdict last stored>>
    season_stats,         \* <<>> or <<[mean, std] last stored>>
    \* process pool of calculate_moving_average_parallel
    cpu_count,            \* mp.cpu_count()
    pool_pc,              \* "idle", "mapping", "returned" or "raised"
    max_workers,          \* the executor's max_workers
    worker_task,          \* per worker: the partition it is processing, or 0
    part_state,           \* per partition: "queued", "running" or "done"
    part_runs,            \* per partition: how many times it was processed
    part_result           \* per partition: <<>> or <<the rows it returned>>

rollVars == <<data, window_size, data_sequential, data_parallel, data_analyzed,
              threshold, data_with_anomalies, seasonal_stats>>

fetchVars == <<phase, call, cities, session, task_pc, requests, response,
               task_result, completion, results>>

appVars == <<selected_city, current_temp, is_anomalous, season_stats>>

poolVars == <<cpu_count, pool_pc, max_workers, worker_task, part_state, part_runs,
              part_result>>

vars == <<rollVars, fetchVars, appVars, poolVars>>

----------------------------------------------------------------------------
(* Bounds of the model *)

MaxRows == 3
MaxWindow == 3

Cities == {"Berlin", "Cairo"}
Temps == {2000, 2003}
Thresholds == {10, 15, 20}

----------------------------------------------------------------------------
(* Values *)

NaN == <<>>
IsNaN(x) == x = <<>>

\* A call that has not been made, and a call that ended in a raised error.
NotRun == [state |-> "not_run", rows |-> <<>>]
Raised == [state |-> "raised", rows |-> <<>>]
Returned(t) == [state |-> "returned", rows |-> t]

Abs(x) == IF x < 0 THEN -x ELSE x

Range(s) == {s[i] : i \in DOMAIN s}

RECURSIVE SumSeq(_)
SumSeq(s) == IF s = <<>> THEN 0 ELSE Head(s) + SumSeq(Tail(s))

RECURSIVE SumSq(_)
SumSq(s) == IF s = <<>> THEN 0 ELSE Head(s) * Head(s) + SumSq(Tail(s))

RECURSIVE Concat(_)
Concat(ss) == IF ss = <<>> THEN <<>> ELSE Head(ss) \o Concat(Tail(ss))

\* The season column of the generated datasets follows the date.
SeasonOf(ts) == IF ts <= 2 THEN "winter" ELSE "spring"

----------------------------------------------------------------------------
(* pandas primitives used by the rolling engine *)

\* data['city'].unique(): the cities in order of first appearance.
RECURSIVE unique(_)
unique(rows) ==
    IF rows = <<>> THEN <<>>
    ELSE LET init == unique(SubSeq(rows, 1, Len(rows) - 1))
             c == rows[Len(rows)].city
         IN IF c \in Range(init) THEN init ELSE Append(init, c)

\* data[data['city'] == city]: the rows of the city, in table order.
WholeTable(rows, city) == rows
RowsOf(rows, city) ==
    LET Is(r) == r.city = city IN SelectSeq(rows, Is)

\* The positions of the table where city_mask is true, ascending.
RECURSIVE MaskPositions(_, _)
MaskPositions(rows, city) ==
    IF rows = <<>> THEN <<>>
    ELSE LET init == MaskPositions(SubSeq(rows, 1, Len(rows) - 1), city)
         IN IF rows[Len(rows)].city = city THEN Append(init, Len(rows)) ELSE init

\* sort_values('timestamp'): ascending, ties keep their order.
RECURSIVE InsertByTimestamp(_, _)
InsertByTimestamp(sorted, r) ==
    IF sorted = <<>> THEN <<r>>
    ELSE IF sorted[Len(sorted)].timestamp <= r.timestamp THEN Append(sorted, r)
    ELSE Append(InsertByTimestamp(SubSeq(sorted, 1, Len(sorted) - 1), r),
                sorted[Len(sorted)])

keep_order(rows) == rows

RECURSIVE sort_values(_)
sort_values(rows) ==
    IF rows = <<>> THEN <<>>
    ELSE InsertByTimestamp(sort_values(SubSeq(rows, 1, Len(rows) - 1)),
                           rows[Len(rows)])

\* rolling(window=W, center=True): the window of position i ends offset
\* places to its right, offset = (W - 1) // 2, and holds W places; a window
\* that leaves the series has fewer than min_periods = W values.
WindowOffsetHalf(W) == W \div 2
WindowOffset(W) == (W - 1) \div 2
WindowLast(i, W) == i + WindowOffset(W)
WindowFirst(i, W) == WindowLast(i, W) - W + 1
WindowFull(i, n, W) == WindowFirst(i, W) >= 1 /\ WindowLast(i, W) <= n
Window(temps, i, W) == SubSeq(temps, WindowFirst(i, W), WindowLast(i, W))

\* .rolling(...).mean() at position i of the series.
RollingMeanAt(temps, i, W) ==
    IF WindowFull(i, Len(temps), W)
    THEN <<SumSeq(Window(temps, i, W)), W>>
    ELSE NaN

\* .rolling(...).std() at position i: the sample deviation (ddof = 1), which
\* one value does not have.
RollingStdAt(temps, i, W) ==
    IF WindowFull(i, Len(temps), W) /\ W > 1
    THEN LET w == Window(temps, i, W)
         IN <<W * SumSq(w) - SumSeq(w) * SumSeq(w), W * (W - 1)>>
    ELSE NaN

Temperatures(rows) == [i \in 1..Len(rows) |-> rows[i].temperature]

----------------------------------------------------------------------------
(* Rolling Statistics Engine *)

\* process_city_for_parallel: sort the partition, attach both columns to the
\* sorted rows.
process_city_for_parallel(city_data, W) ==
    LET sorted == sort_values(city_data)
        temps == Temperatures(sorted)
    IN [i \in 1..Len(sorted) |->
          [city |-> sorted[i].city, timestamp |-> sorted[i].timestamp,
           temperature |-> sorted[i].temperature, season |-> sorted[i].season,
           moving_avg |-> RollingMeanAt(temps, i, W),
           moving_std |-> RollingStdAt(temps, i, W)]]

\* calculate_moving_average_parallel: one partition per city, in order of
\* first appearance; executor.map keeps that order and pd.concat joins the
\* results.  With no city, max_workers = 0 makes ProcessPoolExecutor raise
\* ValueError.
calculate_moving_average_parallel(rows, W) ==
    LET city_list == unique(rows)
    IN IF Len(city_list) = 0 THEN Raised
       ELSE Returned(Concat([c \in 1..Len(city_list) |->
                      process_city_for_parallel(RowsOf(rows, city_list[c]), W)]))

\* data.copy(): what the caller's table holds once the function has stored
\* the rows `written` in the copy it works on.
same_object(original, written) == written
data_copy(original, written) == original

\* One pass of the sequential loop: the statistics are computed on the
\* sorted partition and written back through .values, that is by position,
\* onto the city's rows in table order.
SequentialCityPass(result_data, city, W) ==
    LET pos == MaskPositions(result_data, city)
        temps == Temperatures(sort_values(RowsOf(result_data, city)))
        Rank(i) == CHOOSE j \in 1..Len(pos) : pos[j] = i
    IN [i \in 1..Len(result_data) |->
          IF result_data[i].city = city
          THEN [result_data[i] EXCEPT
                  !.moving_avg = RollingMeanAt(temps, Rank(i), W),
                  !.moving_std = RollingStdAt(temps, Rank(i), W)]
          ELSE result_data[i]]

RECURSIVE SequentialLoop(_, _, _)
SequentialLoop(result_data, city_list, W) ==
    IF city_list = <<>> THEN result_data
    ELSE SequentialLoop(SequentialCityPass(result_data, Head(city_list), W),
                        Tail(city_list), W)

\* calculate_moving_average_sequential: a copy of the table, filled city by
\* city.  (Columns the loop has not yet written read as NaN.)
calculate_moving_average_sequential(rows, W) ==
    LET copy == [i \in 1..Len(rows) |->
                   [city |-> rows[i].city, timestamp |-> rows[i].timestamp,
                    temperature |-> rows[i].temperature, season |-> rows[i].season,
                    moving_avg |-> NaN, moving_std |-> NaN]]
    IN Returned(SequentialLoop(copy, unique(copy), W))

----------------------------------------------------------------------------
(* Anomaly Detector *)

\* Exact comparison of a temperature t with avg + k*std and avg - k*std,
\* avg = a[1]/a[2], std = sqrt(v[1]/v[2]), k = k10/10:  with D = t*a[2] - a[1],
\* t - avg = D/a[2], and D/a[2] > k*std iff D > 0 and
\* D*D * 100 * v[2] > k10*k10 * v[1] * a[2]*a[2].
Deviation(t, a) == t * a[2] - a[1]
BeyondEnvelopeShrinking(t, a, v, k10) ==
    Deviation(t, a) * Deviation(t, a) * 100 * v[2]
       > (30 - k10) * (30 - k10) * v[1] * a[2] * a[2]
BeyondEnvelope(t, a, v, k10) ==
    Deviation(t, a) * Deviation(t, a) * 100 * v[2] > k10 * k10 * v[1] * a[2] * a[2]

\* temperature > upper_bound, upper_bound = moving_avg + threshold * moving_std
AboveUpperInclusive(t, a, v, k10) ==
    \/ Deviation(t, a) > 0 /\ BeyondEnvelope(t, a, v, k10)
    \/ Deviation(t, a) >= 0
         /\ Deviation(t, a) * Deviation(t, a) * 100 * v[2] = k10 * k10 * v[1] * a[2] * a[2]
AboveUpper(t, a, v, k10) ==
    Deviation(t, a) > 0 /\ BeyondEnvelope(t, a, v, k10)

\* temperature < lower_bound, lower_bound = moving_avg - threshold * moving_std
BelowLower(t, a, v, k10) ==
    Deviation(t, a) < 0 /\ BeyondEnvelope(t, a, v, k10)

\* 'moving_avg' in city_data.columns and 'moving_std' in city_data.columns
HasRollingColumns(rows) ==
    rows # <<>> /\ {"moving_avg", "moving_std"} \subseteq DOMAIN rows[1]

\* valid_mask: ~isna(moving_avg) & ~isna(moving_std)
Valid(r) == ~IsNaN(r.moving_avg) /\ ~IsNaN(r.moving_std)

\* One pass of the detector's loop: is_anomaly is computed on the valid rows
\* of the city and written back through .values onto the rows selected by
\* city_mask & valid_mask, in table order.
DetectCityPass(rows, city, k10) ==
    LET IsValidOfCity(r) == r.city = city /\ Valid(r)
        valid_rows == SelectSeq(rows, IsValidOfCity)
        is_anomaly == [j \in 1..Len(valid_rows) |->
                         \/ AboveUpper(valid_rows[j].temperature, valid_rows[j].moving_avg,
                                       valid_rows[j].moving_std, k10)
                         \/ BelowLower(valid_rows[j].temperature, valid_rows[j].moving_avg,
                                       valid_rows[j].moving_std, k10)]
        Rank(i) == Cardinality({j \in 1..i : IsValidOfCity(rows[j])})
    IN [i \in 1..Len(rows) |->
          IF IsValidOfCity(rows[i])
          THEN [rows[i] EXCEPT !.anomaly = is_anomaly[Rank(i)]]
          ELSE rows[i]]

RECURSIVE DetectLoop(_, _, _)
DetectLoop(rows, city_list, k10) ==
    IF city_list = <<>> THEN rows
    ELSE DetectLoop(IF HasRollingColumns(rows)
                    THEN DetectCityPass(rows, Head(city_list), k10)
                    ELSE rows,
                    Tail(city_list), k10)

\* data['anomaly'] = False on a copy of the table.
WithAnomalyFalse(r) ==
    IF "moving_avg" \in DOMAIN r
    THEN [city |-> r.city, timestamp |-> r.timestamp, temperature |-> r.temperature,
          season |-> r.season, moving_avg |-> r.moving_avg,
          moving_std |-> r.moving_std, anomaly |-> FALSE]
    ELSE [city |-> r.city, timestamp |-> r.timestamp, temperature |-> r.temperature,
          season |-> r.season, anomaly |-> FALSE]

\* detect_anomalies(data, threshold)
detect_anomalies(rows, k10) ==
    LET copy == [i \in 1..Len(rows) |-> WithAnomalyFalse(rows[i])]
    IN Returned(DetectLoop(copy, unique(copy), k10))

----------------------------------------------------------------------------
(* Seasonal Aggregator *)

\* The nearest integer to p/q (q > 0), a tie going to the even neighbour.
RoundHalfEven(p, q) ==
    LET f == p \div q
        r == p - f * q
    IN IF 2 * r < q THEN f
       ELSE IF 2 * r > q THEN f + 1
       ELSE IF f % 2 = 0 THEN f ELSE f + 1

\* .round(2) of the value num/den: a whole number of hundredths, that is an
\* even number of half-hundredths.
Round2(num, den) == 2 * RoundHalfEven(num, 2 * den)

\* .round(2) of sqrt(A/B), A >= 0, B > 0: the number h of hundredths with
\* h - 1/2 <= sqrt(A/B)/2 <= h + 1/2, that is (2h-1)^2 * B <= A <= (2h+1)^2 * B,
\* a tie going to the even h.
RoundSqrt2(A, B, hmax) ==
    LET Lower(h) == \/ h = 0
                    \/ A > (2 * h - 1) * (2 * h - 1) * B
                    \/ A = (2 * h - 1) * (2 * h - 1) * B /\ h % 2 = 0
        Upper(h) == \/ A < (2 * h + 1) * (2 * h + 1) * B
                    \/ A = (2 * h + 1) * (2 * h + 1) * B /\ h % 2 = 0
    IN 2 * (CHOOSE h \in 0..hmax : Lower(h) /\ Upper(h))

SeqMin(s) == CHOOSE x \in Range(s) : \A y \in Range(s) : x <= y
SeqMax(s) == CHOOSE x \in Range(s) : \A y \in Range(s) : x >= y

\* 'std' of a group: the sample deviation (ddof = 1), NaN on a single value.
GroupStdPopulation(temps) ==
    LET n == Len(temps)
    IN <<RoundSqrt2(n * SumSq(temps) - SumSeq(temps) * SumSeq(temps), n * n,
                    SeqMax(temps) - SeqMin(temps))>>
GroupStd(temps) ==
    LET n == Len(temps)
    IN IF n < 2 THEN NaN
       ELSE <<RoundSqrt2(n * SumSq(temps) - SumSeq(temps) * SumSeq(temps),
                         n * (n - 1), SeqMax(temps) - SeqMin(temps))>>

\* groupby(['city', 'season']) lists the groups present in ascending key order.
CitiesSorted == <<"Berlin", "Cairo">>
SeasonsSorted == <<"autumn", "spring", "summer", "winter">>

GroupKeys ==
    Concat([c \in 1..Len(CitiesSorted) |->
              [k \in 1..Len(SeasonsSorted) |->
                 [city |-> CitiesSorted[c], season |-> SeasonsSorted[k]]]])

GroupTemps(rows, key) ==
    LET In(r) == r.city = key.city /\ r.season = key.season
    IN Temperatures(SelectSeq(rows, In))

\* .agg({'temperature': ['mean', 'std', 'min', 'max', 'count']}).round(2) of
\* one group, with the flattened column names.  A statistic is <<value>>, or
\* NaN.
SummaryRow(key, temps) ==
    [city |-> key.city, season |-> key.season,
     temperature_mean |-> <<Round2(SumSeq(temps), Len(temps))>>,
     temperature_std |-> GroupStd(temps),
     temperature_min |-> <<Round2(SeqMin(temps), 1)>>,
     temperature_max |-> <<Round2(SeqMax(temps), 1)>>,
     temperature_count |-> Len(temps)]

\* calculate_seasonal_stats(data): one row per group that has rows.
calculate_seasonal_stats(rows) ==
    LET Present(key) == GroupTemps(rows, key) # <<>>
        keys == SelectSeq(GroupKeys, Present)
    IN Returned([g \in 1..Len(keys) |-> SummaryRow(keys[g], GroupTemps(rows, keys[g]))])

----------------------------------------------------------------------------
(* Live Temperature Client *)

\* What the upstream can do to one request: the connection fails, the
\* request times out, or an HTTP response arrives with a status and a body.
\* A body is unparseable, a JSON value that is not an object, or a JSON
\* object; of an object only the members the client reads are kept: main
\* (<<>> when missing), the weather list, message and cod (<<>> when missing).
NoBody == [json |-> "none", main |-> <<>>, weather |-> <<>>, message |-> <<>>, cod |-> <<>>]
Unparseable == [NoBody EXCEPT !.json = "unparseable"]
NotAnObject == [NoBody EXCEPT !.json = "not_object"]
JsonObject(main, weather, message, cod) ==
    [json |-> "object", main |-> main, weather |-> weather, message |-> message, cod |-> cod]

WeatherBody(temp) ==
    JsonObject(<<[temp |-> temp, feels_like |-> temp - 300, humidity |-> 40,
                  pressure |-> 1013]>>,
               <<[description |-> "clear sky", icon |-> "01d"]>>, <<>>, <<200>>)

NetworkFailure == [kind |-> "network_error", status |-> 0, body |-> NoBody]
Timeout == [kind |-> "timeout", status |-> 0, body |-> NoBody]
Http(status, body) == [kind |-> "http", status |-> status, body |-> body]

Readings == {2400, 8000}

Outcomes ==
    {NetworkFailure, Timeout}
    \cup {Http(200, WeatherBody(t)) : t \in Readings}
    \cup {Http(200, JsonObject(<<>>, <<>>, <<>>, <<200>>)),
          Http(200, Unparseable),
          Http(401, JsonObject(<<>>, <<>>, <<"Invalid API key">>, <<401>>)),
          Http(404, JsonObject(<<>>, <<>>, <<"city not found">>, <<404>>)),
          Http(500, JsonObject(<<>>, <<>>, <<>>, <<>>)),
          Http(500, NotAnObject),
          Http(502, Unparseable)}

\* The text of the exception that the outcome raises inside the try block,
\* "" when none is raised: requests.get / session.get raise on a failed or
\* timed out request, response.json() on an unparseable body, the
\* subscripts data['main'][...] and data['weather'][0][...] on a body with a
\* status of 200 that lacks them, data.get on a body that is not an object.
ExceptionIn(o) ==
    IF o.kind = "network_error" THEN "ConnectionError"
    ELSE IF o.kind = "timeout" THEN "Timeout"
    ELSE IF o.body.json = "unparseable" THEN "JSONDecodeError"
    ELSE IF o.status = 200
         THEN IF o.body.json # "object" THEN "TypeError"
              ELSE IF o.body.main = <<>> THEN "KeyError"
              ELSE IF o.body.weather = <<>> THEN "IndexError"
              ELSE ""
    ELSE IF o.body.json # "object" THEN "AttributeError"
    ELSE ""

\* The record returned on status 200.
SuccessRecord(city, body) ==
    [success |-> TRUE, city |-> city,
     temperature |-> body.main[1].temp, feels_like |-> body.main[1].feels_like,
     humidity |-> body.main[1].humidity, pressure |-> body.main[1].pressure,
     description |-> body.weather[1].description, icon |-> body.weather[1].icon,
     timestamp |-> "now"]

\* The record returned on any other status: data.get('message', 'Unknown
\* error') and data.get('cod'), which is None (<<>>) when the body has none.
ErrorRecordFromStatus(status, body) ==
    [success |-> FALSE,
     error |-> IF body.message = <<>> THEN "Unknown error" ELSE body.message[1],
     cod |-> <<status>>]
ErrorRecord(status, body) ==
    [success |-> FALSE,
     error |-> IF body.message = <<>> THEN "Unknown error" ELSE body.message[1],
     cod |-> body.cod]

\* The record returned by the except clause.
ExceptionRecord(text) == [success |-> FALSE, error |-> text]

\* An exception that leaves the function, which the except clause rules out.
Propagated(text) == [exception |-> text]

\* get_current_temperature_sync(api_key, city) when the upstream does o.
SyncUncaught(city, o) ==
    IF ExceptionIn(o) # "" THEN Propagated(ExceptionIn(o))
    ELSE IF o.status = 200 THEN SuccessRecord(city, o.body)
    ELSE ErrorRecord(o.status, o.body)
get_current_temperature_sync(city, o) ==
    IF ExceptionIn(o) # "" THEN ExceptionRecord(ExceptionIn(o))
    ELSE IF o.status = 200 THEN SuccessRecord(city, o.body)
    ELSE ErrorRecord(o.status, o.body)

\* get_current_temperature_async(session, api_key, city) when the upstream
\* does o.
AsyncUncaught(city, o) ==
    IF ExceptionIn(o) # "" THEN Propagated(ExceptionIn(o))
    ELSE IF o.status = 200 THEN SuccessRecord(city, o.body)
    ELSE ErrorRecord(o.status, o.body)
get_current_temperature_async(city, o) ==
    IF ExceptionIn(o) # "" THEN ExceptionRecord(ExceptionIn(o))
    ELSE IF o.status = 200 THEN SuccessRecord(city, o.body)
    ELSE ErrorRecord(o.status, o.body)

\* Where a fetch goes once its one attempt has produced a record: it
\* returns it, whatever it is.
RetryOnFailure(record) ==
    IF "success" \in DOMAIN record /\ ~record.success THEN "created" ELSE "done"
AfterAttempt(record) == "done"

HasRaised(tr) == tr # <<>> /\ "exception" \in DOMAIN tr[1]

\* asyncio.gather(*tasks): the results in the order of the tasks, whatever
\* the order they ended in.
GatherAsCompleted(trs, order) == [i \in 1..Len(trs) |-> trs[order[i]][1]]
gather(trs, order) == [i \in 1..Len(trs) |-> trs[i][1]]

FetchIdle ==
    /\ phase = "idle"
    /\ call = "none"
    /\ cities = <<>>
    /\ session = "none"
    /\ task_pc = <<>>
    /\ requests = <<>>
    /\ response = <<>>
    /\ task_result = <<>>
    /\ completion = <<>>
    /\ results = NotRun

\* No executor exists.
PoolIdle ==
    /\ cpu_count = 1
    /\ pool_pc = "idle"
    /\ max_workers = 0
    /\ worker_task = <<>>
    /\ part_state = <<>>
    /\ part_runs = <<>>
    /\ part_result = <<>>

\* No table loaded: nothing selected, nothing in st.session_state.
AppIdle ==
    /\ selected_city = ""
    /\ current_temp = <<>>
    /\ is_anomalous = <<>>
    /\ season_stats = <<>>

----------------------------------------------------------------------------
(* Datasets the engine is run on *)

\* Tables of at most MaxRows rows in which (city, timestamp) is unique and a
\* city of n rows has the timestamps 1..n, in any row order.
RowSet == [city : Cities, timestamp : 1..MaxRows, temperature : Temps]

WellFormed(t) ==
    /\ \A i, j \in 1..Len(t) :
          (i # j /\ t[i].city = t[j].city) => t[i].timestamp # t[j].timestamp
    /\ \A i \in 1..Len(t) : t[i].timestamp <= Len(RowsOf(t, t[i].city))

WithSeason(t) ==
    [i \in 1..Len(t) |->
       [city |-> t[i].city, timestamp |-> t[i].timestamp,
        temperature |-> t[i].temperature, season |-> SeasonOf(t[i].timestamp)]]

IsDataset(d) ==
    \E n \in 0..MaxRows : \E t \in [1..n -> RowSet] : WellFormed(t) /\ d = WithSeason(t)

----------------------------------------------------------------------------
(* Specification of the analysis pipeline *)

Init ==
    /\ IsDataset(data)
    /\ window_size \in 1..MaxWindow
    /\ data_sequential = NotRun
    /\ data_parallel = NotRun
    /\ data_analyzed = NotRun
    /\ threshold = 0
    /\ data_with_anomalies = NotRun
    /\ seasonal_stats = NotRun
    /\ FetchIdle
    /\ PoolIdle
    /\ AppIdle

\* The dashboard's analysis makes the four calls in this order.
RunSequential ==
    /\ data_sequential = NotRun
    /\ data_sequential' = calculate_moving_average_sequential(data, window_size)
    /\ data' = data_copy(data, data_sequential'.rows)
    /\ UNCHANGED <<window_size, data_parallel, data_analyzed, threshold,
                   data_with_anomalies, seasonal_stats>>
    /\ UNCHANGED <<fetchVars, appVars, poolVars>>

RunParallel ==
    /\ data_sequential # NotRun
    /\ data_parallel = NotRun
    /\ data_parallel' = calculate_moving_average_parallel(data, window_size)
    /\ data_analyzed' = data_parallel'
    /\ UNCHANGED <<data, window_size, data_sequential, threshold,
                   data_with_anomalies, seasonal_stats>>
    /\ UNCHANGED <<fetchVars, appVars, poolVars>>

\* detect_anomalies(data_parallel, anomaly_threshold), as the dashboard calls it.
RunDetect ==
    /\ data_analyzed.state = "returned"
    /\ data_with_anomalies = NotRun
    /\ \E k10 \in Thresholds :
          /\ threshold' = k10
          /\ data_with_anomalies' = detect_anomalies(data_analyzed.rows, k10)
    /\ data_analyzed' = Returned(data_copy(data_analyzed.rows, data_with_anomalies'.rows))
    /\ data_parallel' = IF data_parallel = data_analyzed THEN data_analyzed'
                        ELSE data_parallel
    /\ UNCHANGED <<data, window_size, data_sequential, seasonal_stats>>
    /\ UNCHANGED <<fetchVars, appVars, poolVars>>

\* calculate_seasonal_stats(data_with_anomalies), as the dashboard calls it.
RunSeasonal ==
    /\ data_with_anomalies.state = "returned"
    /\ seasonal_stats = NotRun
    /\ seasonal_stats' = calculate_seasonal_stats(data_with_anomalies.rows)
    /\ UNCHANGED <<data, window_size, data_sequential, data_parallel, data_analyzed,
                   threshold, data_with_anomalies>>
    /\ UNCHANGED <<fetchVars, appVars, poolVars>>

Next == RunSequential \/ RunParallel \/ RunDetect \/ RunSeasonal

Spec == Init /\ [][Next]_vars

----------------------------------------------------------------------------
(* Properties of the rolling statistics engine *)

\* (city, timestamp) -> (moving_avg, moving_std), as a set of tuples.
Mapping(t) ==
    {<<t[i].city, t[i].timestamp, t[i].moving_avg, t[i].moving_std>> : i \in 1..Len(t)}

BothModesReturned ==
    data_sequential.state = "returned" /\ data_parallel.state = "returned"

\* The rows of a city in the order that counts for a mode's output.
Chronological(t, city) == sort_values(RowsOf(t, city))
TableOrder(t, city) == RowsOf(t, city)

Absent(r) == IsNaN(r.moving_avg) /\ IsNaN(r.moving_std)

\* C1: for every window size and every dataset, rows of a city in any input
\* order, the sequential and the parallel computation give the same mapping
\* (city, timestamp) -> (moving_avg, moving_std).
C1_SameMapping ==
    BothModesReturned => Mapping(data_sequential.rows) = Mapping(data_parallel.rows)

\* The absent edge positions of a city's series s: the first `first` and the
\* last `last` of them.
EdgesAbsent(s, first, last) ==
    \A i \in 1..Len(s) : (i <= first \/ i > Len(s) - last) => Absent(s[i])

\* C8, as stated: in the output of both modes, moving_avg and moving_std are
\* absent at the first floor(W/2) and at the last floor(W/2) positions of
\* every city's chronologically sorted series, for odd and even W alike.
C8_EdgesAbsentBothSides ==
    \A t \in {data_sequential, data_parallel} :
        t.state = "returned" =>
            \A c \in Cities :
                EdgesAbsent(Chronological(t.rows, c),
                            window_size \div 2, window_size \div 2)

\* C8, amended: the absent positions are the first floor(W/2) and the last
\* floor((W-1)/2) (one fewer than floor(W/2) when W is even), counted in the
\* parallel output along the city's chronological series and in the
\* sequential output along the city's rows in table order.
C8_EdgesAbsentAsymmetric ==
    /\ data_parallel.state = "returned" =>
          \A c \in Cities :
              EdgesAbsent(Chronological(data_parallel.rows, c),
                          window_size \div 2, (window_size - 1) \div 2)
    /\ data_sequential.state = "returned" =>
          \A c \in Cities :
              EdgesAbsent(TableOrder(data_sequential.rows, c),
                          window_size \div 2, (window_size - 1) \div 2)

\* C8's case: an even window on a city with more rows than the window, both
\* modes run, so that there are defined positions next to the absent edges.
C8_Witness ==
    /\ BothModesReturned
    /\ window_size = 2
    /\ \E c \in Cities :
          /\ Len(RowsOf(data, c)) > window_size
          /\ \E r \in Range(Chronological(data_parallel.rows, c)) : ~Absent(r)
          /\ \E r \in Range(Chronological(data_parallel.rows, c)) : Absent(r)

SingleCity(t) == Len(unique(t)) = 1

Defined(t) == {i \in 1..Len(t) : ~IsNaN(t[i].moving_avg)}

\* C9: on a single-city series as long as the window, each mode leaves
\* exactly one row with a defined moving_avg, the row at the one position
\* whose window covers the whole series (the chronological position
\* floor(W/2) + 1); every other row has moving_avg absent.
C9_OneFullWindowRow ==
    \A t \in {data_sequential, data_parallel} :
        (t.state = "returned" /\ SingleCity(data) /\ Len(data) = window_size) =>
            /\ Cardinality(Defined(t.rows)) = 1
            /\ \A i \in Defined(t.rows) :
                  t.rows[i] = Chronological(t.rows, t.rows[i].city)[window_size \div 2 + 1]

\* The Observation a RollingRecord extends.
Observation(r) ==
    [city |-> r.city, timestamp |-> r.timestamp, temperature |-> r.temperature,
     season |-> r.season]

Observations(t) == [i \in 1..Len(t) |-> Observation(t[i])]

IsRollingRecord(r) ==
    DOMAIN r = {"city", "timestamp", "temperature", "season", "moving_avg", "moving_std"}

\* C12: on every dataset, the empty one included, each mode returns
\* normally with one RollingRecord per Observation of the input: the same
\* rows, none lost or duplicated, each with moving_avg and moving_std.
C12_OneRecordPerObservation ==
    \A t \in {data_sequential, data_parallel} :
        t # NotRun =>
            /\ t.state = "returned"
            /\ Len(t.rows) = Len(data)
            /\ Range(Observations(t.rows)) = Range(Observations(data))
            /\ \A i \in 1..Len(t.rows) : IsRollingRecord(t.rows[i])

\* The rows of every city are in ascending timestamp order.
Ascending(t) ==
    \A i, j \in 1..Len(t) :
        (i < j /\ t[i].city = t[j].city) => t[i].timestamp < t[j].timestamp

\* The rows of every city are adjacent.
CityByCity(t) ==
    \A i, j, k \in 1..Len(t) :
        (i < j /\ j < k /\ t[i].city = t[k].city) => t[j].city = t[i].city

\* C13, as stated: the sequential output has the input's row order, and the
\* parallel output keeps every city's rows in their relative input order.
C13_ParallelKeepsInputOrderPerCity ==
    /\ data_sequential.state = "returned" =>
          Observations(data_sequential.rows) = Observations(data)
    /\ data_parallel.state = "returned" =>
          \A c \in Cities :
              Observations(TableOrder(data_parallel.rows, c)) =
                 Observations(TableOrder(data, c))

\* C13, amended: the sequential output has the input's row order; the
\* parallel output lists the cities in order of first appearance and every
\* city's rows in ascending timestamp order, which is their relative input
\* order exactly when the input has them in ascending timestamp order.
C13_ParallelOrdersByTimestamp ==
    /\ data_sequential.state = "returned" =>
          Observations(data_sequential.rows) = Observations(data)
    /\ data_parallel.state = "returned" =>
          /\ Len(data_parallel.rows) = Len(data)
          /\ Range(Observations(data_parallel.rows)) = Range(Observations(data))
          /\ unique(data_parallel.rows) = unique(data)
          /\ CityByCity(data_parallel.rows)
          /\ Ascending(data_parallel.rows)
          /\ \A c \in Cities :
                (Observations(TableOrder(data_parallel.rows, c)) =
                    Observations(TableOrder(data, c)))
                 <=> Ascending(TableOrder(data, c))

\* C13's case: two cities interleaved, one of them with its rows out of
\* chronological order, and both modes have returned.
C13_Witness ==
    /\ BothModesReturned
    /\ Len(unique(data)) = 2
    /\ ~CityByCity(data)
    /\ \E c \in Cities : ~Ascending(TableOrder(data, c))
    /\ Observations(data_parallel.rows) # Observations(data_sequential.rows)

\* The rows of one city, in table order.
OwnRows(t, city) == SelectSeq(t, LAMBDA r : r.city = city)

\* C15: in both modes the records of a city are those the mode computes on
\* the table made of that city's rows alone, so every dataset with the same
\* rows of the city gives the city the same moving_avg and moving_std,
\* whatever rows of other cities it holds and wherever they stand.
C15_CityStatisticsFromOwnRows ==
    \A c \in Cities :
        OwnRows(data, c) # <<>> =>
            /\ data_sequential.state = "returned" =>
                  OwnRows(data_sequential.rows, c) =
                     calculate_moving_average_sequential(OwnRows(data, c), window_size).rows
            /\ data_parallel.state = "returned" =>
                  OwnRows(data_parallel.rows, c) =
                     calculate_moving_average_parallel(OwnRows(data, c), window_size).rows

\* C15's case: two cities with interleaved rows and different temperatures,
\* a window of two or more, and a defined statistic in each mode's result.
C15_Witness ==
    /\ BothModesReturned
    /\ window_size >= 2
    /\ ~CityByCity(data)
    /\ \E i, j \in 1..Len(data) :
          data[i].city # data[j].city /\ data[i].temperature # data[j].temperature
    /\ Defined(data_sequential.rows) # {}
    /\ Defined(data_parallel.rows) # {}

IsObservation(r) == DOMAIN r = {"city", "timestamp", "temperature", "season"}

\* C16: no call changes the table it is given: the sequential and the
\* parallel computation leave data as it was, detect_anomalies leaves the
\* table of rolling records as it was, calculate_seasonal_stats leaves the
\* annotated table as it was; each result is stored beside its input.
C16_InputsUnchanged ==
    [][/\ data' = data
       /\ data_sequential # NotRun => data_sequential' = data_sequential
       /\ data_parallel # NotRun => data_parallel' = data_parallel
       /\ data_analyzed # NotRun => data_analyzed' = data_analyzed
       /\ data_with_anomalies # NotRun => data_with_anomalies' = data_with_anomalies]_vars

\* C16's case: the four calls have been made on a table of two cities, the
\* table still holds plain observations and the detector's input still
\* holds rolling records without an anomaly column.
C16_Witness ==
    /\ seasonal_stats.state = "returned"
    /\ Len(unique(data)) = 2
    /\ \A i \in 1..Len(data) : IsObservation(data[i])
    /\ \A i \in 1..Len(data_analyzed.rows) : IsRollingRecord(data_analyzed.rows[i])
    /\ \E i \in 1..Len(data_with_anomalies.rows) :
          "anomaly" \in DOMAIN data_with_anomalies.rows[i]

----------------------------------------------------------------------------
(* The anomaly detector on arbitrary rolling records *)

MaxDetectRows == 2

DetectTemps == {2000, 2010, 2011}
DetectAvgs == {NaN, <<2000, 1>>}
DetectStds == {NaN, <<0, 1>>, <<25, 1>>}

\* Tables of rolling records with any combination of present and absent
\* statistics (RollingRecordTable), and tables that have no rolling columns
\* at all (ObservationTable).
DetectRowSet ==
    [city : Cities, temperature : DetectTemps, moving_avg : DetectAvgs,
     moving_std : DetectStds]

RollingRecordTable(t) ==
    [i \in 1..Len(t) |->
       [city |-> t[i].city, timestamp |-> i, temperature |-> t[i].temperature,
        season |-> SeasonOf(i), moving_avg |-> t[i].moving_avg,
        moving_std |-> t[i].moving_std]]

ObservationTable(t) ==
    [i \in 1..Len(t) |->
       [city |-> t[i].city, timestamp |-> i, temperature |-> t[i].temperature,
        season |-> SeasonOf(i)]]

InitDetect ==
    /\ data = <<>>
    /\ window_size = 1
    /\ data_sequential = NotRun
    /\ data_parallel = NotRun
    /\ \E n \in 0..MaxDetectRows :
          \/ \E t \in [1..n -> DetectRowSet] : data_analyzed = Returned(RollingRecordTable(t))
          \/ \E t \in [1..n -> [city : Cities, temperature : DetectTemps]] :
                n > 0 /\ data_analyzed = Returned(ObservationTable(t))
    /\ threshold = 0
    /\ data_with_anomalies = NotRun
    /\ seasonal_stats = NotRun
    /\ FetchIdle
    /\ PoolIdle
    /\ AppIdle

SpecDetect == InitDetect /\ [][RunDetect]_vars

\* |temperature - moving_avg| > k * moving_std, decided on the squares.
OutsideEnvelope(r, k10) ==
    LET d == r.temperature * r.moving_avg[2] - r.moving_avg[1]
    IN d * d * 100 * r.moving_std[2]
         > k10 * k10 * r.moving_std[1] * r.moving_avg[2] * r.moving_avg[2]

OnEnvelope(r, k10) ==
    LET d == r.temperature * r.moving_avg[2] - r.moving_avg[1]
    IN d * d * 100 * r.moving_std[2]
         = k10 * k10 * r.moving_std[1] * r.moving_avg[2] * r.moving_avg[2]

StatsPresent(r) ==
    /\ {"moving_avg", "moving_std"} \subseteq DOMAIN r
    /\ r.moving_avg # NaN
    /\ r.moving_std # NaN

\* C2: after detect_anomalies(data, k) every row is flagged exactly when its
\* moving_avg and moving_std are both present and its temperature lies
\* strictly outside [moving_avg - k*moving_std, moving_avg + k*moving_std]; a
\* row with an absent statistic, or with its temperature on a bound, is not
\* flagged.
C2_AnomalyIffOutside ==
    data_with_anomalies.state = "returned" =>
        /\ Len(data_with_anomalies.rows) = Len(data_analyzed.rows)
        /\ \A i \in 1..Len(data_analyzed.rows) :
              LET r == data_analyzed.rows[i]
                  out == data_with_anomalies.rows[i]
              IN /\ out.anomaly = (StatsPresent(r) /\ OutsideEnvelope(r, threshold))
                 /\ out.city = r.city
                 /\ out.temperature = r.temperature

\* C2's case: one table with a flagged row and a row on a bound.
C2_Witness ==
    /\ data_with_anomalies.state = "returned"
    /\ \E i \in 1..Len(data_with_anomalies.rows) : data_with_anomalies.rows[i].anomaly
    /\ \E i \in 1..Len(data_analyzed.rows) :
          /\ StatsPresent(data_analyzed.rows[i])
          /\ data_analyzed.rows[i].moving_std # <<0, 1>>
          /\ OnEnvelope(data_analyzed.rows[i], threshold)
          /\ ~data_with_anomalies.rows[i].anomaly

\* The positions detect_anomalies flags.
Flagged(result) == {i \in 1..Len(result.rows) : result.rows[i].anomaly}

\* C11: on the table the detector was given, every row flagged with a
\* threshold is flagged with every smaller one: against the stored result
\* for threshold, a larger k flags a subset and a smaller k a superset, so
\* the count of flagged rows never grows with k.
C11_FlaggedShrinksWithThreshold ==
    data_with_anomalies.state = "returned" =>
        \A k10 \in Thresholds :
            LET other == detect_anomalies(data_analyzed.rows, k10)
            IN /\ k10 >= threshold =>
                     /\ Flagged(other) \subseteq Flagged(data_with_anomalies)
                     /\ Cardinality(Flagged(other)) <= Cardinality(Flagged(data_with_anomalies))
               /\ k10 <= threshold =>
                     /\ Flagged(data_with_anomalies) \subseteq Flagged(other)
                     /\ Cardinality(Flagged(data_with_anomalies)) <= Cardinality(Flagged(other))

\* C11's case: a table on which k = 2.0 flags one row and k = 1.0 flags that
\* row and another.
C11_Witness ==
    /\ data_with_anomalies.state = "returned"
    /\ threshold = 20
    /\ Flagged(data_with_anomalies) # {}
    /\ Flagged(detect_anomalies(data_analyzed.rows, 10)) # Flagged(data_with_anomalies)

----------------------------------------------------------------------------
(* The seasonal aggregator on small groups *)

MaxSeasonRows == 3

SeasonTemps == {2000, 2001, 2003}
SeasonNames == {"winter", "spring"}

SeasonRowSet == [city : Cities, temperature : SeasonTemps, season : SeasonNames]

SeasonalTable(t) ==
    [i \in 1..Len(t) |->
       [city |-> t[i].city, timestamp |-> i, temperature |-> t[i].temperature,
        season |-> t[i].season]]

\* The aggregator is handed what detect_anomalies returns on the raw table.
InitSeasonal ==
    /\ \E n \in 0..MaxSeasonRows : \E t \in [1..n -> SeasonRowSet] : data = SeasonalTable(t)
    /\ window_size = 1
    /\ data_sequential = NotRun
    /\ data_parallel = NotRun
    /\ data_analyzed = Returned(data)
    /\ threshold = 20
    /\ data_with_anomalies = detect_anomalies(data, 20)
    /\ seasonal_stats = NotRun
    /\ FetchIdle
    /\ PoolIdle
    /\ AppIdle

SpecSeasonal == InitSeasonal /\ [][RunSeasonal]_vars

\* A single-city, single-season table of N >= 1 rows of one temperature.
Uniform(t) ==
    /\ Len(t) >= 1
    /\ \A i \in 1..Len(t) :
          /\ t[i].city = t[1].city
          /\ t[i].season = t[1].season
          /\ t[i].temperature = t[1].temperature

\* C7, as stated: N identical values v of one city and season give one row
\* with mean = v, std = 0, min = max = v and count = N, for every N >= 1.
C7_UniformGroup ==
    (seasonal_stats.state = "returned" /\ Uniform(data_with_anomalies.rows)) =>
        LET v == data_with_anomalies.rows[1].temperature
        IN /\ Len(seasonal_stats.rows) = 1
           /\ seasonal_stats.rows[1].temperature_mean = <<v>>
           /\ seasonal_stats.rows[1].temperature_std = <<0>>
           /\ seasonal_stats.rows[1].temperature_min = <<v>>
           /\ seasonal_stats.rows[1].temperature_max = <<v>>
           /\ seasonal_stats.rows[1].temperature_count = Len(data_with_anomalies.rows)

\* v to two decimals: a nearest whole number of hundredths.
NearestHundredths(v) == {h \in {v - 1, v, v + 1} : h % 2 = 0 /\ Abs(h - v) <= 1}

\* C7, amended: the one row has count = N and mean = min = max = v rounded
\* to two decimals (v itself when v has at most two decimals); its std is 0
\* when N >= 2 and absent when N = 1.
C7_UniformGroupRounded ==
    (seasonal_stats.state = "returned" /\ Uniform(data_with_anomalies.rows)) =>
        LET v == data_with_anomalies.rows[1].temperature
            n == Len(data_with_anomalies.rows)
            row == seasonal_stats.rows[1]
        IN /\ Len(seasonal_stats.rows) = 1
           /\ row.city = data_with_anomalies.rows[1].city
           /\ row.season = data_with_anomalies.rows[1].season
           /\ row.temperature_mean # NaN
           /\ row.temperature_mean[1] \in NearestHundredths(v)
           /\ row.temperature_min = row.temperature_mean
           /\ row.temperature_max = row.temperature_mean
           /\ (v % 2 = 0 => row.temperature_mean = <<v>>)
           /\ row.temperature_std = (IF n >= 2 THEN <<0>> ELSE NaN)
           /\ row.temperature_count = n

\* C7's case: three identical values with a third decimal have been
\* aggregated.
C7_Witness ==
    /\ seasonal_stats.state = "returned"
    /\ Uniform(data_with_anomalies.rows)
    /\ Len(data_with_anomalies.rows) = 3
    /\ data_with_anomalies.rows[1].temperature = 2003
    /\ seasonal_stats.rows[1].temperature_mean = <<2004>>

----------------------------------------------------------------------------
(* Specification of the live temperature client *)

MaxBatch == 2

\* A cap on the requests of one entry, which only a retrying client reaches.
MaxAttempts == 3

RollIdle ==
    /\ data = <<>>
    /\ window_size = 1
    /\ data_sequential = NotRun
    /\ data_parallel = NotRun
    /\ data_analyzed = NotRun
    /\ threshold = 0
    /\ data_with_anomalies = NotRun
    /\ seasonal_stats = NotRun

InitFetch == RollIdle /\ FetchIdle /\ AppIdle /\ PoolIdle

\* gather schedules every coroutine before the event loop handles a response.
StartedOneByOne == TRUE
AllStarted == \A i \in 1..Len(task_pc) : task_pc[i] # "created"
AllDone == \A i \in 1..Len(task_pc) : task_pc[i] = "done"

\* get_current_temperature_sync is called.
InvokeSync(city) ==
    /\ phase = "idle"
    /\ phase' = "running"
    /\ call' = "sync"
    /\ cities' = <<city>>
    /\ task_pc' = <<"created">>
    /\ requests' = <<0>>
    /\ response' = <<<<>>>>
    /\ task_result' = <<<<>>>>
    /\ UNCHANGED <<session, completion, results>>
    /\ UNCHANGED <<rollVars, appVars, poolVars>>

\* The upstream does o, and the synchronous call ends.
SyncReturn(o) ==
    /\ phase = "running" /\ call = "sync" /\ task_pc[1] = "waiting"
    /\ LET record == get_current_temperature_sync(cities[1], o)
       IN /\ response' = <<<<o>>>>
          /\ task_result' = <<<<record>>>>
          /\ task_pc' = <<AfterAttempt(record)>>
          /\ completion' = IF AfterAttempt(record) = "done" THEN <<1>> ELSE completion
          /\ phase' = IF AfterAttempt(record) # "done" THEN "running"
                      ELSE IF "exception" \in DOMAIN record THEN "raised"
                      ELSE "returned"
          /\ results' = IF AfterAttempt(record) # "done" THEN results
                        ELSE IF "exception" \in DOMAIN record THEN Raised
                        ELSE Returned(<<record>>)
    /\ UNCHANGED <<call, cities, session, requests>>
    /\ UNCHANGED <<rollVars, appVars, poolVars>>

\* get_multiple_temperatures_async is called: the session is opened and one
\* coroutine per list entry is created.
InvokeBatch(cs) ==
    /\ phase = "idle"
    /\ phase' = "running"
    /\ call' = "batch"
    /\ cities' = cs
    /\ session' = "open"
    /\ task_pc' = [i \in 1..Len(cs) |-> "created"]
    /\ requests' = [i \in 1..Len(cs) |-> 0]
    /\ response' = [i \in 1..Len(cs) |-> <<>>]
    /\ task_result' = [i \in 1..Len(cs) |-> <<>>]
    /\ UNCHANGED <<completion, results>>
    /\ UNCHANGED <<rollVars, appVars, poolVars>>

\* The request of entry i is sent: by requests.get, which blocks, in the
\* synchronous call; in the batch by session.get, where the coroutine
\* suspends, gather having scheduled the coroutines in list order.
SendRequest(i) ==
    /\ phase = "running"
    /\ call = "batch" => session = "open"
    /\ i \in 1..Len(task_pc)
    /\ task_pc[i] = "created"
    /\ \A j \in 1..(i - 1) : requests[j] > 0
    /\ requests[i] < MaxAttempts
    /\ task_pc' = [task_pc EXCEPT ![i] = "waiting"]
    /\ requests' = [requests EXCEPT ![i] = @ + 1]
    /\ UNCHANGED <<phase, call, cities, session, response, task_result, completion, results>>
    /\ UNCHANGED <<rollVars, appVars, poolVars>>

\* The upstream does o to request i, in any order among the requests that
\* wait, once the event loop has started them all; the fetch of entry i ends.
TaskComplete(i, o) ==
    /\ phase = "running" /\ call = "batch"
    /\ i \in 1..Len(task_pc)
    /\ task_pc[i] = "waiting"
    /\ AllStarted
    /\ LET record == get_current_temperature_async(cities[i], o)
       IN /\ response' = [response EXCEPT ![i] = <<o>>]
          /\ task_result' = [task_result EXCEPT ![i] = <<record>>]
          /\ task_pc' = [task_pc EXCEPT ![i] = AfterAttempt(record)]
          /\ completion' = IF AfterAttempt(record) = "done"
                           THEN Append(completion, i) ELSE completion
    /\ UNCHANGED <<phase, call, cities, session, requests, results>>
    /\ UNCHANGED <<rollVars, appVars, poolVars>>

\* await asyncio.gather(*tasks) ends when every fetch has ended, or, with
\* the first exception, as soon as one fetch raises; the session is closed
\* on the way out.
BatchReturn ==
    /\ phase = "running" /\ call = "batch"
    /\ \/ AllDone
       \/ \E i \in 1..Len(task_result) : HasRaised(task_result[i])
    /\ session' = "closed"
    /\ IF \E i \in 1..Len(task_result) : HasRaised(task_result[i])
       THEN phase' = "raised" /\ results' = Raised
       ELSE phase' = "returned" /\ results' = Returned(gather(task_result, completion))
    /\ UNCHANGED <<call, cities, task_pc, requests, response, task_result, completion>>
    /\ UNCHANGED <<rollVars, appVars, poolVars>>

CityLists == UNION {[1..n -> Cities] : n \in 0..MaxBatch}

NextFetch ==
    \/ \E city \in Cities : InvokeSync(city)
    \/ \E o \in Outcomes : SyncReturn(o)
    \/ \E cs \in CityLists : InvokeBatch(cs)
    \/ \E i \in 1..MaxBatch : SendRequest(i)
    \/ \E i \in 1..MaxBatch, o \in Outcomes : TaskComplete(i, o)
    \/ BatchReturn

SpecFetch == InitFetch /\ [][NextFetch]_vars

----------------------------------------------------------------------------
(* Properties of the live temperature client *)

Ended == phase \in {"returned", "raised"}

Failed(o) == ~(o.kind = "http" /\ o.status = 200 /\ ExceptionIn(o) = "")

\* C3: the batch returns exactly one result per list entry, result i being
\* the one of cities[i], in every order of arrival of the responses and for
\* every mix of successes and failures: a failed fetch neither ends the
\* batch early nor changes what another entry gets.
C3_OneResultPerCityInOrder ==
    (call = "batch" /\ Ended) =>
        /\ phase = "returned"
        /\ results.state = "returned"
        /\ AllDone
        /\ Len(results.rows) = Len(cities)
        /\ \A i \in 1..Len(cities) :
              /\ results.rows[i] = task_result[i][1]
              /\ results.rows[i] = get_current_temperature_async(cities[i], response[i][1])
              /\ results.rows[i].success => results.rows[i].city = cities[i]

\* C3's case: two different cities, the second response arriving first, the
\* first fetch failing and the second succeeding.
C3_Witness ==
    /\ call = "batch" /\ phase = "returned"
    /\ Len(cities) = 2 /\ cities[1] # cities[2]
    /\ completion = <<2, 1>>
    /\ Failed(response[1][1])
    /\ results.rows[2].success

\* C17: in a batch the one session is open from before the first request
\* until every request has produced its result, every request in flight is
\* on the open session, and no response is handled while a request of the
\* batch is still to be started.
C17_SharedSessionAllStartedFirst ==
    call = "batch" =>
        /\ session \in {"open", "closed"}
        /\ \A i \in 1..Len(cities) :
              /\ task_pc[i] = "waiting" => session = "open"
              /\ response[i] # <<>> => \A j \in 1..Len(cities) : requests[j] > 0
        /\ session = "closed" =>
              /\ Ended
              /\ \A i \in 1..Len(cities) : task_result[i] # <<>> /\ requests[i] > 0
        /\ Ended => session = "closed"

\* C17's case: both requests of a batch of two are in flight on the open
\* session and no response has been handled yet.
C17_Witness ==
    /\ call = "batch" /\ phase = "running"
    /\ Len(cities) = 2
    /\ session = "open"
    /\ requests = <<1, 1>>
    /\ task_pc = <<"waiting", "waiting">>
    /\ response = <<<<>>, <<>>>>

\* The session is closed once both results of a batch of two are in.
C17_ClosedAfterResults ==
    /\ call = "batch" /\ phase = "returned"
    /\ Len(cities) = 2
    /\ session = "closed"

\* C4, as stated: on a non-success status the record has success = false,
\* the upstream message, and the upstream status code in its code field.
C4_NonSuccessCarriesStatus ==
    phase = "returned" =>
        \A i \in 1..Len(cities) :
            LET o == response[i][1]
                r == results.rows[i]
            IN (o.kind = "http" /\ o.status # 200) =>
                  /\ ~r.success
                  /\ o.body.message # <<>> /\ r.error = o.body.message[1]
                  /\ "cod" \in DOMAIN r /\ r.cod = <<o.status>>

\* C4, amended: on a non-success status the record has success = false; when
\* the body is a JSON object its error is the body's message ("Unknown
\* error" without one) and its cod field is the body's cod member (None
\* without one), which is the status code when the upstream puts it there,
\* as for 401; when the body is no JSON object the record has the text of
\* the error that reading it raised and no cod field.  A batch of two whose
\* first entry is answered 401 with cod 401 and whose second is answered 200
\* with a complete body returns, in order, a failure with cod 401 and a
\* success with the temperature.
C4_NonSuccessCarriesBodyCode ==
    phase = "returned" =>
        /\ \A i \in 1..Len(cities) :
              LET o == response[i][1]
                  r == results.rows[i]
              IN (o.kind = "http" /\ o.status # 200) =>
                    /\ ~r.success
                    /\ IF o.body.json = "object"
                       THEN /\ r.error = (IF o.body.message = <<>> THEN "Unknown error"
                                          ELSE o.body.message[1])
                            /\ "cod" \in DOMAIN r
                            /\ r.cod = o.body.cod
                       ELSE /\ r.error \in {"JSONDecodeError", "AttributeError"}
                            /\ "cod" \notin DOMAIN r
        /\ \A t \in Readings :
              (/\ call = "batch" /\ Len(cities) = 2
               /\ response[1][1] =
                     Http(401, JsonObject(<<>>, <<>>, <<"Invalid API key">>, <<401>>))
               /\ response[2][1] = Http(200, WeatherBody(t))) =>
                  /\ results.rows[1] =
                        [success |-> FALSE, error |-> "Invalid API key", cod |-> <<401>>]
                  /\ results.rows[2].success
                  /\ results.rows[2].city = cities[2]
                  /\ results.rows[2].temperature = t

\* C4's case: the batch of two, 401 then 200, has returned.
C4_Witness ==
    /\ call = "batch" /\ phase = "returned"
    /\ Len(cities) = 2 /\ cities[1] # cities[2]
    /\ response[1][1].status = 401
    /\ response[2][1].status = 200
    /\ ~results.rows[1].success
    /\ results.rows[1].cod = <<401>>
    /\ results.rows[2].success

\* C5: whatever the upstream does, both calls return records that carry a
\* boolean success flag, nothing is raised, and success is true only for a
\* status of 200 whose body gave every field of the observation.
C5_AlwaysARecord ==
    /\ phase # "raised"
    /\ phase = "returned" =>
          /\ results.state = "returned"
          /\ Len(results.rows) = Len(cities)
          /\ \A i \in 1..Len(cities) :
                LET o == response[i][1]
                    r == results.rows[i]
                IN /\ "success" \in DOMAIN r
                   /\ r.success \in BOOLEAN
                   /\ r.success =>
                         /\ o.kind = "http" /\ o.status = 200
                         /\ o.body.json = "object"
                         /\ o.body.main # <<>> /\ o.body.weather # <<>>
                         /\ r.temperature = o.body.main[1].temp
                         /\ r.feels_like = o.body.main[1].feels_like
                         /\ r.humidity = o.body.main[1].humidity
                         /\ r.pressure = o.body.main[1].pressure
                         /\ r.description = o.body.weather[1].description
                         /\ r.icon = o.body.weather[1].icon
                   /\ ~r.success => "error" \in DOMAIN r

\* C5's case: a synchronous call whose request timed out has returned.
C5_Witness ==
    /\ call = "sync" /\ phase = "returned"
    /\ response[1][1] = Timeout
    /\ ~results.rows[1].success

\* C6: an invocation sends exactly one request per city asked for, one for
\* the synchronous call and one per list entry for a batch, whether the
\* request succeeds or fails; no attempt is followed by a second one.
C6_OneRequestPerCity ==
    /\ Len(requests) = Len(cities)
    /\ \A i \in 1..Len(requests) :
          /\ requests[i] <= 1
          /\ task_result[i] # <<>> => task_pc[i] = "done"
    /\ Ended => \A i \in 1..Len(requests) : requests[i] = 1

\* C6's case: a batch of two has returned after one fetch failed.
C6_Witness ==
    /\ call = "batch" /\ phase = "returned"
    /\ Len(cities) = 2
    /\ Failed(response[1][1])
    /\ ~Failed(response[2][1])
    /\ requests = <<1, 1>>

----------------------------------------------------------------------------
(* Specification of the dashboard's live tab *)

MaxAppRows == 3

\* Histories of 5, 10 and 15 degrees; with the readings of 12 and 40
\* degrees they are whole half degrees, in which the cross-check is computed.
AppTemps == {1000, 2000, 3000}

AppRowSet == [city : Cities, temperature : AppTemps, season : SeasonNames]

\* The uploaded file, its rows in chronological order.
UploadedTable(t) ==
    [i \in 1..Len(t) |->
       [city |-> t[i].city, timestamp |-> i, temperature |-> t[i].temperature,
        season |-> t[i].season]]

HalfDegrees(t) == t \div 100

\* sorted(data['city'].unique())
CityChoices(rows) ==
    SelectSeq(CitiesSorted, LAMBDA c : c \in Range(unique(rows)))

\* city_data.iloc[-1]['season']
current_season(rows, city) ==
    LET city_data == RowsOf(rows, city)
    IN city_data[Len(city_data)].season

\* city_data[city_data['season'] == current_season]
season_data_of_any_city(rows, city) ==
    SelectSeq(rows, LAMBDA r : r.season = current_season(rows, city))
current_season_data(rows, city) ==
    SelectSeq(RowsOf(rows, city), LAMBDA r : r.season = current_season(rows, city))

\* current_season_data['temperature'].mean(), as sum over count.
season_mean(temps) == <<SumSeq(temps), Len(temps)>>

\* current_season_data['temperature'].std(): the sample deviation, as the
\* variance n*sum(x^2) - sum(x)^2 over n*(n-1); NaN on a single value.
season_std(temps) ==
    LET n == Len(temps)
    IN IF n < 2 THEN NaN
       ELSE <<n * SumSq(temps) - SumSeq(temps) * SumSeq(temps), n * (n - 1)>>

\* current_temp > season_mean + 2 * season_std or
\* current_temp < season_mean - 2 * season_std; a comparison with NaN is false.
ClassifyWithThreshold(t, mean, std) ==
    /\ ~IsNaN(std)
    /\ AboveUpper(t, mean, std, threshold) \/ BelowLower(t, mean, std, threshold)
Classify(t, mean, std) ==
    /\ ~IsNaN(std)
    /\ AboveUpper(t, mean, std, 20) \/ BelowLower(t, mean, std, 20)

\* A file has been uploaded, the selectbox shows the first city, the slider
\* its default of 2.0, and st.session_state holds no reading yet.
InitApp ==
    /\ \E n \in 1..MaxAppRows : \E t \in [1..n -> AppRowSet] : data = UploadedTable(t)
    /\ window_size = 1
    /\ data_sequential = NotRun
    /\ data_parallel = NotRun
    /\ data_analyzed = NotRun
    /\ threshold = 20
    /\ data_with_anomalies = NotRun
    /\ seasonal_stats = NotRun
    /\ FetchIdle
    /\ PoolIdle
    /\ selected_city = CityChoices(data)[1]
    /\ current_temp = <<>>
    /\ is_anomalous = <<>>
    /\ season_stats = <<>>

\* The anomaly threshold slider is moved.
SetThreshold(k10) ==
    /\ threshold' = k10
    /\ UNCHANGED <<data, window_size, data_sequential, data_parallel, data_analyzed,
                   data_with_anomalies, seasonal_stats>>
    /\ UNCHANGED <<fetchVars, appVars, poolVars>>

\* Another city is chosen in the selectbox.
SelectCity(c) ==
    /\ c \in Range(CityChoices(data))
    /\ selected_city' = c
    /\ UNCHANGED <<current_temp, is_anomalous, season_stats>>
    /\ UNCHANGED <<rollVars, fetchVars, poolVars>>

\* The button of the synchronous request is pressed and the upstream does o.
SyncFetch(o) ==
    LET sync_result == get_current_temperature_sync(selected_city, o)
        season_rows == current_season_data(data, selected_city)
        temps == [i \in 1..Len(season_rows) |-> HalfDegrees(season_rows[i].temperature)]
    IN /\ IF sync_result.success
          THEN /\ current_temp' = <<sync_result>>
               /\ IF season_rows # <<>>
                  THEN /\ is_anomalous' =
                            <<Classify(HalfDegrees(sync_result.temperature),
                                       season_mean(temps), season_std(temps))>>
                       /\ season_stats' =
                            <<[mean |-> season_mean(temps), std |-> season_std(temps)]>>
                  ELSE UNCHANGED <<is_anomalous, season_stats>>
          ELSE UNCHANGED <<current_temp, is_anomalous, season_stats>>
       /\ UNCHANGED selected_city
       /\ UNCHANGED <<rollVars, fetchVars, poolVars>>

NextApp ==
    \/ \E k10 \in Thresholds : SetThreshold(k10)
    \/ \E c \in Cities : SelectCity(c)
    \/ \E o \in Outcomes : SyncFetch(o)

SpecApp == InitApp /\ [][NextApp]_vars

----------------------------------------------------------------------------
(* Properties of the live cross-check *)

\* mean = m degrees and std = s degrees, in the half degrees of season_stats.
StatsAre(st, m, s) ==
    /\ st.mean[1] = 2 * m * st.mean[2]
    /\ ~IsNaN(st.std)
    /\ st.std[1] = 4 * s * s * st.std[2]

StoredReading == HalfDegrees(current_temp[1].temperature)

\* C10: the verdict stored with a reading is true exactly when
\* |reading - mean| > 2 * std for the mean and std stored with it, wherever
\* the threshold slider stands; 40.0 against mean 10.0 and std 5.0 is
\* anomalous and 12.0 against the same is not.
C10_FixedMultiplierTwo ==
    is_anomalous # <<>> =>
        LET st == season_stats[1]
            D == Abs(StoredReading * st.mean[2] - st.mean[1])
        IN /\ current_temp # <<>> /\ season_stats # <<>>
           /\ is_anomalous[1] =
                 (~IsNaN(st.std) /\
                  D * D * st.std[2] > 4 * st.std[1] * st.mean[2] * st.mean[2])
           /\ (StatsAre(st, 10, 5) /\ StoredReading = 80) => is_anomalous[1]
           /\ (StatsAre(st, 10, 5) /\ StoredReading = 24) => ~is_anomalous[1]

\* C10's case: with the slider away from 2.0, a reading of 12 degrees stored
\* against a season whose deviation it exceeds by more than the slider's
\* multiple but less than twice, and judged normal.
C10_Witness ==
    /\ is_anomalous = <<FALSE>>
    /\ threshold # 20
    /\ StoredReading = 24
    /\ ~IsNaN(season_stats[1].std)
    /\ LET st == season_stats[1]
           D == Abs(StoredReading * st.mean[2] - st.mean[1])
       IN /\ D * D * 100 * st.std[2] > threshold * threshold * st.std[1] * st.mean[2] * st.mean[2]
          /\ D * D * st.std[2] <= 4 * st.std[1] * st.mean[2] * st.mean[2]

\* The two readings of the claim's example, both stored against mean 10.0
\* and std 5.0.
C10_ExampleReached ==
    /\ is_anomalous = <<TRUE>>
    /\ StoredReading = 80
    /\ StatsAre(season_stats[1], 10, 5)

\* The temperatures, in half degrees, of the rows of the city that have the
\* season of the city's last row.
HistoryOf(city) ==
    LET own == SelectSeq(data, LAMBDA r : r.city = city)
        last == own[Len(own)].season
        rows == SelectSeq(own, LAMBDA r : r.season = last)
    IN [i \in 1..Len(rows) |-> rows[i].temperature \div 100]

\* st holds the mean and the sample deviation of the values h.
StatsOf(st, h) ==
    LET n == Len(h)
    IN /\ st.mean[1] * n = SumSeq(h) * st.mean[2]
       /\ IF n < 2 THEN IsNaN(st.std)
          ELSE /\ ~IsNaN(st.std)
               /\ st.std[1] * n * (n - 1)
                     = (n * SumSq(h) - SumSeq(h) * SumSeq(h)) * st.std[2]

\* C18: in every state of the session, a stored verdict comes with stored
\* statistics and a stored successful reading; the statistics are those of
\* the current season of the reading's city, and the verdict is the
\* 2-sigma classification of the reading's temperature against them.
C18_StoredVerdictConsistent ==
    is_anomalous # <<>> =>
        /\ season_stats # <<>>
        /\ current_temp # <<>>
        /\ current_temp[1].success
        /\ current_temp[1].city \in Range(unique(data))
        /\ StatsOf(season_stats[1], HistoryOf(current_temp[1].city))
        /\ LET st == season_stats[1]
               D == Abs((current_temp[1].temperature \div 100) * st.mean[2] - st.mean[1])
           IN is_anomalous[1] <=>
                 (~IsNaN(st.std) /\
                  D * D * st.std[2] > 4 * st.std[1] * st.mean[2] * st.mean[2])

\* C18's case: a verdict was stored for one city, another city whose
\* history differs is now selected, and the stored statistics are still
\* those of the first.
C18_Witness ==
    /\ is_anomalous # <<>>
    /\ Len(unique(data)) = 2
    /\ selected_city # current_temp[1].city
    /\ ~StatsOf(season_stats[1], HistoryOf(selected_city))

----------------------------------------------------------------------------
(* Specification of the process pool of calculate_moving_average_parallel *)

MaxCpu == 2

MaxPoolRows == 3

Min(a, b) == IF a <= b THEN a ELSE b

\* max_workers=min(len(cities), mp.cpu_count())
WorkerPerCity(n, cpus) == n
pool_size(n, cpus) == Min(n, cpus)

\* args_list: the partition of entry i is the rows of the i-th city.
args_list(rows, W) ==
    [i \in 1..Len(unique(rows)) |-> RowsOf(rows, unique(rows)[i])]

Queued == {i \in 1..Len(part_state) : part_state[i] = "queued"}
Running == {i \in 1..Len(part_state) : part_state[i] = "running"}
AllPartitionsDone == \A i \in 1..Len(part_state) : part_state[i] = "done"

InitPool ==
    /\ \E n \in 0..MaxPoolRows : \E t \in [1..n -> RowSet] :
          WellFormed(t) /\ data = WithSeason(t)
    /\ window_size \in 1..MaxWindow
    /\ data_sequential = NotRun
    /\ data_parallel = NotRun
    /\ data_analyzed = NotRun
    /\ threshold = 0
    /\ data_with_anomalies = NotRun
    /\ seasonal_stats = NotRun
    /\ FetchIdle
    /\ AppIdle
    /\ cpu_count \in 1..MaxCpu
    /\ pool_pc = "idle"
    /\ max_workers = 0
    /\ worker_task = <<>>
    /\ part_state = <<>>
    /\ part_runs = <<>>
    /\ part_result = <<>>

\* The call builds args_list and the executor and hands every partition to
\* executor.map; with no city the executor's constructor raises.
PoolOpen ==
    /\ pool_pc = "idle"
    /\ LET n == Len(args_list(data, window_size))
       IN IF n = 0
          THEN /\ pool_pc' = "raised"
               /\ data_parallel' = Raised
               /\ UNCHANGED <<max_workers, worker_task, part_state, part_runs, part_result>>
          ELSE /\ pool_pc' = "mapping"
               /\ max_workers' = pool_size(n, cpu_count)
               /\ worker_task' = [w \in 1..pool_size(n, cpu_count) |-> 0]
               /\ part_state' = [i \in 1..n |-> "queued"]
               /\ part_runs' = [i \in 1..n |-> 0]
               /\ part_result' = [i \in 1..n |-> <<>>]
               /\ UNCHANGED data_parallel
    /\ UNCHANGED <<data, window_size, data_sequential, data_analyzed, threshold,
                   data_with_anomalies, seasonal_stats, cpu_count>>
    /\ UNCHANGED <<fetchVars, appVars>>

\* An idle worker process takes the next partition of the call queue.
WorkerTake(w) ==
    /\ pool_pc = "mapping"
    /\ w \in 1..Len(worker_task)
    /\ worker_task[w] = 0
    /\ Queued # {}
    /\ LET i == CHOOSE q \in Queued : \A r \in Queued : q <= r
       IN /\ worker_task' = [worker_task EXCEPT ![w] = i]
          /\ part_state' = [part_state EXCEPT ![i] = "running"]
          /\ part_runs' = [part_runs EXCEPT ![i] = @ + 1]
    /\ UNCHANGED <<cpu_count, pool_pc, max_workers, part_result>>
    /\ UNCHANGED <<rollVars, fetchVars, appVars>>

\* The worker ends process_city_for_parallel on its partition.
WorkerFinish(w) ==
    /\ pool_pc = "mapping"
    /\ w \in 1..Len(worker_task)
    /\ worker_task[w] # 0
    /\ LET i == worker_task[w]
       IN /\ part_result' =
                [part_result EXCEPT
                   ![i] = <<process_city_for_parallel(args_list(data, window_size)[i],
                                                      window_size)>>]
          /\ part_state' = [part_state EXCEPT ![i] = "done"]
    /\ worker_task' = [worker_task EXCEPT ![w] = 0]
    /\ UNCHANGED <<cpu_count, pool_pc, max_workers, part_runs>>
    /\ UNCHANGED <<rollVars, fetchVars, appVars>>

\* list(executor.map(...)) has every result, the with block has shut the
\* executor down, and pd.concat joins the results.
PoolReturn ==
    /\ pool_pc = "mapping"
    /\ AllPartitionsDone
    /\ pool_pc' = "returned"
    /\ data_parallel' = Returned(Concat([i \in 1..Len(part_result) |-> part_result[i][1]]))
    /\ UNCHANGED <<data, window_size, data_sequential, data_analyzed, threshold,
                   data_with_anomalies, seasonal_stats>>
    /\ UNCHANGED <<cpu_count, max_workers, worker_task, part_state, part_runs, part_result>>
    /\ UNCHANGED <<fetchVars, appVars>>

NextPool ==
    \/ PoolOpen
    \/ \E w \in 1..MaxCpu : WorkerTake(w)
    \/ \E w \in 1..MaxCpu : WorkerFinish(w)
    \/ PoolReturn

SpecPool == InitPool /\ [][NextPool]_vars

----------------------------------------------------------------------------
(* Properties of the process pool *)

WorkersOn(i) == {w \in 1..Len(worker_task) : worker_task[w] = i}

\* C14: every partition is processed by one worker, once; never more than
\* min(number of cities, CPU count) partitions are being processed; and the
\* call returns the concatenation only when every partition is done, the
\* concatenation being that of all the results.
C14_OneWorkerPerPartitionThenJoin ==
    /\ \A i \in 1..Len(part_state) :
          /\ part_runs[i] <= 1
          /\ part_state[i] = "queued" <=> part_runs[i] = 0
          /\ Cardinality(WorkersOn(i)) = (IF part_state[i] = "running" THEN 1 ELSE 0)
          /\ part_state[i] = "done" <=> part_result[i] # <<>>
    /\ Cardinality(Running) <= Min(Len(unique(data)), cpu_count)
    /\ pool_pc = "mapping" => data_parallel = NotRun
    /\ data_parallel.state = "returned" =>
          /\ pool_pc = "returned"
          /\ Len(part_state) = Len(unique(data))
          /\ \A i \in 1..Len(part_state) : part_state[i] = "done" /\ part_runs[i] = 1
          /\ data_parallel = calculate_moving_average_parallel(data, window_size)

\* C14's case: two cities on one CPU, both partitions processed and the
\* result returned.
C14_Witness ==
    /\ pool_pc = "returned"
    /\ Len(part_state) = 2
    /\ cpu_count = 1
    /\ Len(data_parallel.rows) = Len(data)

\* Two partitions are processed at the same time when two CPUs allow it.
C14_TwoAtOnce == Cardinality(Running) = 2

====
